---- MODULE Spec2Model ----
(***************************************************************************)
(* Model of the PassBi Python SDK (sdks/python/passbi_client.py): one      *)
(* PassBiClient instance, its public methods, the shared _request wrapper, *)
(* the header-derived rate-limit record and the PassBiError predicates.    *)
(*                                                                         *)
(* Python values are encoded as follows.  A str is a tuple of one-letter   *)
(* strings where its characters matter (API key, header values) and a TLA+ *)
(* string otherwise.  None is the string "None".  A dict is a function     *)
(* from its keys.  An exception is a record whose kind is the class name.  *)
(***************************************************************************)
EXTENDS Integers, Sequences, FiniteSets, TLC

VARIABLES
    json_exc,         \* class family of the error response.json() raises in the installed requests
    constructed,      \* a PassBiClient instance exists
    api_key,          \* self.api_key
    rate_limit_info,  \* self.rate_limit_info
    session_closes,   \* number of self.session.close() calls so far
    in_scope,         \* the client is inside a with-block
    last_headers,     \* headers of the most recently received response
    last              \* the most recent call: what it was given, sent and produced

vars == <<json_exc, constructed, api_key, rate_limit_info, session_closes,
          in_scope, last_headers, last>>

(***************************************************************************)
(* Bounds                                                                  *)
(***************************************************************************)
MaxCloses == 1

(***************************************************************************)
(* Python values                                                           *)
(***************************************************************************)
None == "None"
Absent == "<absent>"
NoStatus == -1

\* bool(s) of a str held as a TLA+ string, or of None
Truthy(v) == v /= None /\ v /= Absent /\ v /= ""

\* dict.get(key) on a decoded JSON object: None when the key is missing
DictGet(d, k) == IF d[k] = Absent THEN None ELSE d[k]

\* a or b
PyOr(a, b) == IF Truthy(a) THEN a ELSE b

\* str.startswith
StartsWith(s, p) == Len(s) >= Len(p) /\ SubSeq(s, 1, Len(p)) = p

(***************************************************************************)
(* int(str): surrounding whitespace is stripped, one optional sign, then   *)
(* decimal digits in which single underscores may separate digits.         *)
(***************************************************************************)
DigitChars == <<"0", "1", "2", "3", "4", "5", "6", "7", "8", "9">>

IsDigit(c) == \E i \in 1..10 : DigitChars[i] = c

DigitVal(c) == (CHOOSE i \in 1..10 : DigitChars[i] = c) - 1

RECURSIVE LStrip(_)
LStrip(s) == IF s /= <<>> /\ Head(s) = " " THEN LStrip(Tail(s)) ELSE s

RECURSIVE RStrip(_)
RStrip(s) == IF s /= <<>> /\ s[Len(s)] = " " THEN RStrip(SubSeq(s, 1, Len(s) - 1)) ELSE s

Strip(s) == RStrip(LStrip(s))

DigitsOk(s) ==
    /\ s /= <<>>
    /\ \A i \in 1..Len(s) : IsDigit(s[i]) \/ s[i] = "_"
    /\ IsDigit(s[1]) /\ IsDigit(s[Len(s)])
    /\ \A i \in 1..(Len(s) - 1) : ~(s[i] = "_" /\ s[i + 1] = "_")

RECURSIVE DigitsVal(_, _)
DigitsVal(s, acc) ==
    IF s = <<>> THEN acc
    ELSE IF Head(s) = "_" THEN DigitsVal(Tail(s), acc)
    ELSE DigitsVal(Tail(s), 10 * acc + DigitVal(Head(s)))

\* [ok |-> FALSE] stands for the ValueError int() raises
PyInt(str) ==
    LET t == Strip(str)
        signed == t /= <<>> /\ Head(t) \in {"+", "-"}
        body == IF signed THEN Tail(t) ELSE t
    IN  IF DigitsOk(body)
        THEN [ok |-> TRUE,
              value |-> IF signed /\ Head(t) = "-" THEN 0 - DigitsVal(body, 0)
                        ELSE DigitsVal(body, 0)]
        ELSE [ok |-> FALSE, value |-> 0]

(***************************************************************************)
(* The remote server and the transport: what session.request() can give.   *)
(***************************************************************************)
RateLimitKeys == {"limit_second", "remaining_second", "limit_day",
                  "remaining_day", "limit_month", "remaining_month"}

HeaderName(k) ==
    CASE k = "limit_second"     -> "X-RateLimit-Limit-Second"
      [] k = "remaining_second" -> "X-RateLimit-Remaining-Second"
      [] k = "limit_day"        -> "X-RateLimit-Limit-Day"
      [] k = "remaining_day"    -> "X-RateLimit-Remaining-Day"
      [] k = "limit_month"      -> "X-RateLimit-Limit-Month"
      [] k = "remaining_month"  -> "X-RateLimit-Remaining-Month"

HeaderNames == {HeaderName(k) : k \in RateLimitKeys}

Missing == [present |-> FALSE, value |-> <<>>]
Hdr(str) == [present |-> TRUE, value |-> str]

NoHeaders == [h \in HeaderNames |-> Missing]

\* every header present and numeric
FullHeaders ==
    [h \in HeaderNames |->
        CASE h = "X-RateLimit-Limit-Second"     -> Hdr(<<"1", "0">>)
          [] h = "X-RateLimit-Remaining-Second" -> Hdr(<<"9">>)
          [] h = "X-RateLimit-Limit-Day"        -> Hdr(<<"1", "0", "0", "0">>)
          [] h = "X-RateLimit-Remaining-Day"    -> Hdr(<<"9", "9", "9">>)
          [] h = "X-RateLimit-Limit-Month"      -> Hdr(<<"3", "0", "_", "0", "0", "0">>)
          [] h = "X-RateLimit-Remaining-Month"  -> Hdr(<<" ", "2", "9", "9", "9", "9">>)]

\* quota exhausted: other numbers, among them 0 and a negative one
SpentHeaders ==
    [h \in HeaderNames |->
        CASE h = "X-RateLimit-Limit-Second"     -> Hdr(<<"2", "0">>)
          [] h = "X-RateLimit-Remaining-Second" -> Hdr(<<"0">>)
          [] h = "X-RateLimit-Limit-Day"        -> Hdr(<<"5", "0", "0">>)
          [] h = "X-RateLimit-Remaining-Day"    -> Hdr(<<"-", "1">>)
          [] h = "X-RateLimit-Limit-Month"      -> Hdr(<<"+", "7", "0", "0">>)
          [] h = "X-RateLimit-Remaining-Month"  -> Hdr(<<"1">>)]

\* the headers of FullHeaders except the one for key k
Without(k) == [FullHeaders EXCEPT ![HeaderName(k)] = Missing]

\* the headers of SpentHeaders with the one for key k set to the text str
WithText(k, str) == [SpentHeaders EXCEPT ![HeaderName(k)] = Hdr(str)]

HeaderMaps ==
    {NoHeaders, FullHeaders, SpentHeaders}
        \cup {Without("remaining_day")}
        \cup {WithText("remaining_day", <<"u", "n", "l", "i", "m", "i", "t", "e", "d">>),
              WithText("limit_month", <<>>)}

Statuses == {200, 400, 401, 403, 429}

RateLimitCodes == {"rate_limit_exceeded", "daily_quota_exceeded", "monthly_quota_exceeded"}

\* a response body: text that is not JSON, a JSON array, or a JSON object
\* with its message and error members (Absent when it has none)
Body(form, message, error) == [form |-> form, message |-> message, error |-> error]

Undecodable == Body("undecodable", Absent, Absent)
NoData == Body("none", Absent, Absent)
JsonArray == Body("array", Absent, Absent)
Payload == Body("object", Absent, Absent)

ErrorBodies ==
    {Body("object", m, e) : m \in {Absent, "", "invalid coordinates"},
                            e \in {Absent, "", "bad_request"}}
        \cup {Body("object", "slow down", e) : e \in RateLimitCodes}

Bodies == {Undecodable, JsonArray} \cup ErrorBodies

Response(status, body, headers) ==
    [t |-> "response", status |-> status, body |-> body, headers |-> headers]

\* session.request() raised requests.exceptions.Timeout
TimedOut == [t |-> "timeout", status |-> NoStatus, body |-> NoData, headers |-> NoHeaders]
\* session.request() raised another requests.exceptions.RequestException
ConnectionFailed == [t |-> "error", status |-> NoStatus, body |-> NoData, headers |-> NoHeaders]
\* no request was made
NoNet == [t |-> "none", status |-> NoStatus, body |-> NoData, headers |-> NoHeaders]

RateLimited == Body("object", "slow down", "rate_limit_exceeded")
BadRequest == Body("object", "invalid coordinates", "bad_request")

\* Every body under status 400; under the other statuses the bodies that
\* separate them; every header map under a success response and the
\* unreadable ones under a failure response too.
Responses ==
    {Response(400, b, FullHeaders) : b \in Bodies}
        \cup {Response(200, b, FullHeaders) : b \in {Payload, Undecodable, JsonArray}}
        \cup {Response(401, b, FullHeaders) : b \in {BadRequest, RateLimited}}
        \cup {Response(403, b, FullHeaders) : b \in {BadRequest, Undecodable}}
        \cup {Response(429, b, FullHeaders) : b \in {RateLimited, Payload, JsonArray}}
        \cup {Response(200, Payload, h) : h \in HeaderMaps}
        \cup {Response(429, RateLimited, h) : h \in HeaderMaps \ {FullHeaders, SpentHeaders,
                                                                  Without("remaining_day")}}

NetOutcomes == Responses \cup {TimedOut, ConnectionFailed}

\* response.ok
Ok(response) == response.status < 400

(***************************************************************************)
(* PassBiError and the outcomes of a call                                  *)
(***************************************************************************)
\* what a call produced: kind is "return" or the class of the exception that
\* left the call; an exception other than PassBiError carries no status
Outcome(kind, message, status_code, error_code, data) ==
    [kind |-> kind, message |-> message, status_code |-> status_code,
     error_code |-> error_code, data |-> data]

\* PassBiError(message, status_code, error_code, details)
PassBiError(message, status_code, error_code, details) ==
    Outcome("PassBiError", message, status_code, error_code, details)

Returns(data) == Outcome("return", None, NoStatus, None, data)

Raises(class) == Outcome(class, None, NoStatus, None, NoData)

\* a classification that also looks at the status
is_rate_limit_error_or_429(e) == e.error_code \in RateLimitCodes \/ e.status_code = 429

is_rate_limit_error(e) == e.error_code \in RateLimitCodes

is_auth_error(e) == e.status_code \in {401, 403}

(***************************************************************************)
(* The rate-limit record                                                   *)
(***************************************************************************)
\* the {} of __init__
EmptyDict == [k \in {} |-> 0]

\* int(headers.get(name, 0)) for the header of key k
HeaderInt(headers, k) ==
    IF headers[HeaderName(k)].present
    THEN PyInt(headers[HeaderName(k)].value)
    ELSE [ok |-> TRUE, value |-> 0]

\* the six int() results for each header map a response can carry
HeaderInts == [h \in HeaderMaps |-> [k \in RateLimitKeys |-> HeaderInt(h, k)]]

\* the keys in the order the dict display evaluates them
KeyOrder == <<"limit_second", "remaining_second", "limit_day",
              "remaining_day", "limit_month", "remaining_month">>

\* an extraction that stores each field as soon as it is parsed, so that the
\* fields before a failing int() are new and the others are left as they were
_extract_field_by_field(old, headers) ==
    LET ints == HeaderInts[headers]
        bad == {i \in 1..6 : ~ints[KeyOrder[i]].ok}
        done == IF bad = {} THEN RateLimitKeys
                ELSE {KeyOrder[i] : i \in 1..((CHOOSE i \in bad : \A j \in bad : i <= j) - 1)}
    IN  [raised |-> bad /= {},
         rate_limit_info |-> [k \in done \cup DOMAIN old |->
                                 IF k \in done THEN ints[k].value ELSE old[k]]]

\* The dict is built before it is assigned: when an int() raises, the
\* assignment does not happen and the ValueError leaves the method.
_extract_rate_limit_info(old, headers) ==
    LET ints == HeaderInts[headers]
    IN  IF \A k \in RateLimitKeys : ints[k].ok
        THEN [raised |-> FALSE,
              rate_limit_info |-> [k \in RateLimitKeys |-> ints[k].value]]
        ELSE [raised |-> TRUE, rate_limit_info |-> old]

(***************************************************************************)
(* _request                                                                *)
(***************************************************************************)
\* response.json() failed.  requests 2.27 and later raise
\* requests.exceptions.JSONDecodeError, a RequestException, which the last
\* except clause catches; earlier versions raise json.JSONDecodeError, a
\* ValueError, which no clause catches.
JsonFailure(exc) ==
    IF exc = "RequestException"
    THEN PassBiError("Request failed: ...", 0, "request_failed", NoData)
    ELSE Raises("JSONDecodeError")

\* lines 107-119, after the headers were taken
ParseResponse(response, exc) ==
    IF response.body.form = "undecodable" THEN JsonFailure(exc)
    ELSE IF Ok(response) THEN Returns(response.body)
    ELSE IF response.body.form = "array" THEN Raises("AttributeError")
    ELSE PassBiError(
            PyOr(DictGet(response.body, "message"),
                 PyOr(DictGet(response.body, "error"), "API request failed")),
            response.status,
            DictGet(response.body, "error"),
            response.body)

\* a wrapper that sends the request again after a timeout
_request_retrying(old, net, exc) ==
    [reqs |-> 2, rate_limit_info |-> old,
     outcome |-> PassBiError("Request timeout", 408, "timeout", NoData)]

\* a wrapper that clears the rate-limit record when no response arrives
_request_resetting(old, net, exc) ==
    IF net.t = "timeout"
    THEN [reqs |-> 1, rate_limit_info |-> EmptyDict,
          outcome |-> PassBiError("Request timeout", 408, "timeout", NoData)]
    ELSE IF net.t = "error"
    THEN [reqs |-> 1, rate_limit_info |-> EmptyDict,
          outcome |-> PassBiError("Request failed: ...", 0, "request_failed", NoData)]
    ELSE CHOOSE r \in {[reqs |-> 1, rate_limit_info |-> ex.rate_limit_info,
                         outcome |-> IF ex.raised THEN Raises("ValueError")
                                     ELSE ParseResponse(net, exc)] :
                            ex \in {_extract_rate_limit_info(old, net.headers)}} : TRUE

\* The result of one _request call given what session.request() produced:
\* the requests sent, the rate-limit record afterwards and the outcome.
_request(old, net, exc) ==
    IF net.t = "timeout"
    THEN [reqs |-> 1, rate_limit_info |-> old,
          outcome |-> PassBiError("Request timeout", 408, "timeout", NoData)]
    ELSE IF net.t = "error"
    THEN [reqs |-> 1, rate_limit_info |-> old,
          outcome |-> PassBiError("Request failed: ...", 0, "request_failed", NoData)]
    ELSE CHOOSE r \in {[reqs |-> 1, rate_limit_info |-> ex.rate_limit_info,
                         outcome |-> IF ex.raised THEN Raises("ValueError")
                                     ELSE ParseResponse(net, exc)] :
                            ex \in {_extract_rate_limit_info(old, net.headers)}} : TRUE

(***************************************************************************)
(* Calls                                                                   *)
(***************************************************************************)
NoHttp == [method |-> None, endpoint |-> <<>>, params |-> <<>>]
Http(method, endpoint, params) == [method |-> method, endpoint |-> endpoint, params |-> params]

Call(op, args, http, net, reqs, closes, out) ==
    [op |-> op, args |-> args, http |-> http, net |-> net, reqs |-> reqs,
     closes |-> closes, out |-> out]

NoCall == Call(None, <<>>, NoHttp, NoNet, 0, 0, Returns(NoData))

\* raise ValueError(...) before anything else was done
RaiseValueError(op, args) ==
    /\ last' = Call(op, args, NoHttp, NoNet, 0, 0, Raises("ValueError"))
    /\ UNCHANGED <<json_exc, constructed, api_key, rate_limit_info,
                   session_closes, in_scope, last_headers>>

\* return self._request(method, endpoint, ...), the transport giving net
ReturnRequest(op, args, http, net) ==
    \E r \in {_request(rate_limit_info, net, json_exc)} :
        /\ rate_limit_info' = r.rate_limit_info
        /\ last_headers' = IF net.t = "response"
                           THEN [received |-> TRUE, headers |-> net.headers]
                           ELSE last_headers
        /\ last' = Call(op, args, http, net, r.reqs, 0, r.outcome)
        /\ UNCHANGED <<json_exc, constructed, api_key, session_closes, in_scope>>

(***************************************************************************)
(* PassBiClient                                                            *)
(***************************************************************************)
ApiKeys == {<<>>, <<"p", "k">>, <<"s", "k", "_", "1">>, <<"P", "K", "_", "1">>,
            <<"p", "k", "_", "1">>}

Coords == {"", "14.7167,-17.4677"}
\* a latitude or longitude: None, or a float written as text; 0.0 is falsy
Floats == {None, "0.0"}
Names == {"", "Production Key"}
KeyIds == {"", "key_abc123"}
Modes == {"BUS"}

ApiKeyOk(key) == key /= <<>> /\ StartsWith(key, <<"p", "k", "_">>)

__init__(key) ==
    /\ ~constructed
    /\ IF ~ApiKeyOk(key)
       THEN RaiseValueError("__init__", <<key>>)
       ELSE /\ constructed' = TRUE
            /\ api_key' = key
            /\ rate_limit_info' = EmptyDict
            /\ last' = Call("__init__", <<key>>, NoHttp, NoNet, 0, 0, Returns(NoData))
            /\ UNCHANGED <<json_exc, session_closes, in_scope, last_headers>>

get_rate_limit_info ==
    /\ constructed
    /\ last' = Call("get_rate_limit_info", <<>>, NoHttp, NoNet, 0, 0,
                    Returns(rate_limit_info))
    /\ UNCHANGED <<json_exc, constructed, api_key, rate_limit_info,
                   session_closes, in_scope, last_headers>>

\* a check that forgets the destination
search_routes_ok_from_only(from_coords, to_coords) == Truthy(from_coords)

search_routes_ok(from_coords, to_coords) == Truthy(from_coords) /\ Truthy(to_coords)

search_routes(from_coords, to_coords) ==
    /\ constructed
    /\ IF ~search_routes_ok(from_coords, to_coords)
       THEN RaiseValueError("search_routes", <<from_coords, to_coords>>)
       ELSE \E net \in NetOutcomes : ReturnRequest("search_routes", <<from_coords, to_coords>>,
                Http("GET", <<"/v2/route-search">>,
                     <<<<"from", from_coords>>, <<"to", to_coords>>>>), net)

find_nearby_stops(lat, lon) ==
    /\ constructed
    /\ IF lat = None \/ lon = None
       THEN RaiseValueError("find_nearby_stops", <<lat, lon>>)
       ELSE \E net \in NetOutcomes : ReturnRequest("find_nearby_stops", <<lat, lon>>,
                Http("GET", <<"/v2/stops/nearby">>,
                     <<<<"lat", lat>>, <<"lon", lon>>, <<"radius", "500">>>>), net)

list_routes(mode) ==
    /\ constructed
    /\ \E net \in NetOutcomes : ReturnRequest("list_routes", <<mode>>,
            Http("GET", <<"/v2/routes/list">>,
                 IF Truthy(mode) THEN <<<<"limit", "100">>, <<"mode", mode>>>>
                 ELSE <<<<"limit", "100">>>>), net)

get_partner_info ==
    /\ constructed
    /\ \E net \in NetOutcomes : ReturnRequest("get_partner_info", <<>>, Http("GET", <<"/dashboard/me">>, <<>>), net)

list_api_keys ==
    /\ constructed
    /\ \E net \in NetOutcomes : ReturnRequest("list_api_keys", <<>>, Http("GET", <<"/dashboard/api-keys">>, <<>>), net)

create_api_key(name) ==
    /\ constructed
    /\ IF ~Truthy(name)
       THEN RaiseValueError("create_api_key", <<name>>)
       ELSE \E net \in NetOutcomes : ReturnRequest("create_api_key", <<name>>,
                Http("POST", <<"/dashboard/api-keys">>, <<>>), net)

revoke_api_key(key_id) ==
    /\ constructed
    /\ IF ~Truthy(key_id)
       THEN RaiseValueError("revoke_api_key", <<key_id>>)
       ELSE \E net \in NetOutcomes : ReturnRequest("revoke_api_key", <<key_id>>,
                Http("DELETE", <<"/dashboard/api-keys/", key_id>>, <<>>), net)

get_usage_stats ==
    /\ constructed
    /\ \E net \in NetOutcomes : ReturnRequest("get_usage_stats", <<>>,
            Http("GET", <<"/dashboard/usage">>, <<<<"days", "30">>>>), net)

get_quota_usage ==
    /\ constructed
    /\ \E net \in NetOutcomes : ReturnRequest("get_quota_usage", <<>>, Http("GET", <<"/dashboard/quota">>, <<>>), net)

health_check ==
    /\ constructed
    /\ \E net \in NetOutcomes : ReturnRequest("health_check", <<>>, Http("GET", <<"/health">>, <<>>), net)

\* self.session.close(); the session stays usable, nothing else changes
close ==
    /\ constructed
    /\ session_closes < MaxCloses
    /\ session_closes' = session_closes + 1
    /\ last' = Call("close", <<>>, NoHttp, NoNet, 0, 1, Returns(NoData))
    /\ UNCHANGED <<json_exc, constructed, api_key, rate_limit_info, in_scope,
                   last_headers>>

__enter__ ==
    /\ constructed
    /\ ~in_scope
    /\ in_scope' = TRUE
    /\ last' = Call("__enter__", <<>>, NoHttp, NoNet, 0, 0, Returns(NoData))
    /\ UNCHANGED <<json_exc, constructed, api_key, rate_limit_info,
                   session_closes, last_headers>>

\* classes of the exception that ended the with-block; None when it completed
ExcTypes == {None, "ValueError", "PassBiError", "KeyError"}

\* __exit__(exc_type, exc_val, exc_tb): the close() calls it makes and the
\* value it returns
\* an exit that closes only when the block completed
exit_does_on_success(exc_type) ==
    [closes |-> IF exc_type = None THEN 1 ELSE 0, returns |-> None]

exit_does(exc_type) == [closes |-> 1, returns |-> None]

\* The with statement re-raises the block's exception unless __exit__
\* returned a true value.
__exit__(exc_type) ==
    LET x == exit_does(exc_type)
    IN  /\ constructed
        /\ in_scope
        /\ session_closes < MaxCloses
        /\ in_scope' = FALSE
        /\ session_closes' = session_closes + x.closes
        /\ last' = Call("__exit__", <<exc_type>>, NoHttp, NoNet, 0, x.closes,
                        IF exc_type /= None /\ ~Truthy(x.returns)
                        THEN Raises(exc_type) ELSE Returns(NoData))
        /\ UNCHANGED <<json_exc, constructed, api_key, rate_limit_info, last_headers>>

(***************************************************************************)
(* Specification                                                           *)
(***************************************************************************)
Init ==
    /\ json_exc \in {"RequestException", "ValueError"}
    /\ constructed = FALSE
    /\ api_key = <<>>
    /\ rate_limit_info = EmptyDict
    /\ session_closes = 0
    /\ in_scope = FALSE
    /\ last_headers = [received |-> FALSE, headers |-> NoHeaders]
    /\ last = NoCall

Next ==
    \/ \E key \in ApiKeys : __init__(key)
    \/ get_rate_limit_info
    \/ \E from_coords \in Coords, to_coords \in Coords : search_routes(from_coords, to_coords)
    \/ \E lat \in Floats, lon \in Floats : find_nearby_stops(lat, lon)
    \/ \E mode \in Modes : list_routes(mode)
    \/ get_partner_info
    \/ list_api_keys
    \/ \E name \in Names : create_api_key(name)
    \/ \E key_id \in KeyIds : revoke_api_key(key_id)
    \/ get_usage_stats
    \/ get_quota_usage
    \/ health_check
    \/ close
    \/ __enter__
    \/ \E exc_type \in ExcTypes : __exit__(exc_type)

Spec == Init /\ [][Next]_vars

(***************************************************************************)
(* Properties                                                              *)
(***************************************************************************)
RequestOps == {"search_routes", "find_nearby_stops", "list_routes",
               "get_partner_info", "list_api_keys", "create_api_key",
               "revoke_api_key", "get_usage_stats", "get_quota_usage",
               "health_check"}

\* the call was given an input its local validation rejects
InvalidInput(c) ==
    \/ c.op = "__init__" /\ (c.args[1] = <<>> \/ ~StartsWith(c.args[1], <<"p", "k", "_">>))
    \/ c.op = "search_routes" /\ (c.args[1] = "" \/ c.args[2] = "")
    \/ c.op = "find_nearby_stops" /\ (c.args[1] = None \/ c.args[2] = None)
    \/ c.op = "create_api_key" /\ c.args[1] = ""
    \/ c.op = "revoke_api_key" /\ c.args[1] = ""

\* the response the call received carries a rate-limit header that int() rejects
UnreadableHeader(c, k) ==
    /\ c.net.t = "response"
    /\ c.net.headers[HeaderName(k)].present
    /\ ~PyInt(c.net.headers[HeaderName(k)].value).ok

\* what the six headers of a response stand for: the integer of a header
\* that is present, 0 for one that is absent or not a number
HeaderValues(headers) ==
    [k \in RateLimitKeys |->
        IF headers[HeaderName(k)].present /\ PyInt(headers[HeaderName(k)].value).ok
        THEN PyInt(headers[HeaderName(k)].value).value
        ELSE 0]

\* C1: a call whose input fails local validation (constructor with an empty
\* or unprefixed key, search_routes with an empty from or to,
\* find_nearby_stops with a null lat or lon, create_api_key with an empty
\* name, revoke_api_key with an empty key_id) raises ValueError, never
\* PassBiError, sends no HTTP request, creates no client and leaves the
\* rate-limit record as it was.
C1_ValidationPrecedesNetwork ==
    [][InvalidInput(last') =>
          /\ last'.out.kind = "ValueError"
          /\ last'.reqs = 0
          /\ last'.net = NoNet
          /\ rate_limit_info' = rate_limit_info
          /\ last_headers' = last_headers
          /\ constructed' = constructed]_vars

C1_Witness ==
    /\ last.op = "find_nearby_stops"
    /\ last.args = <<"0.0", None>>
    /\ last.out.kind = "ValueError"
    /\ last_headers.received
    /\ rate_limit_info = HeaderValues(SpentHeaders)

\* C2: a response with a failing HTTP status yields a PassBiError whose
\* status code is the HTTP status, whose error code is the body's error
\* member and whose message is the body's message if present, else its error
\* if present, else the fixed fallback, for every failing status and body.
C2_FailingStatusYieldsApiError ==
    (last.net.t = "response" /\ ~Ok(last.net)) =>
        /\ last.out.kind = "PassBiError"
        /\ last.out.status_code = last.net.status
        /\ last.out.error_code = DictGet(last.net.body, "error")
        /\ last.out.message =
              IF last.net.body.message /= Absent THEN last.net.body.message
              ELSE IF last.net.body.error /= Absent THEN last.net.body.error
              ELSE "API request failed"

\* C3: a call of a request-issuing method whose validation passes sends
\* exactly one HTTP request whatever the outcome; a call that fails
\* validation, get_rate_limit_info and close send none.
C3_ExactlyOneRequest ==
    /\ (last.op \in RequestOps /\ ~InvalidInput(last)) => (last.reqs = 1 /\ last.net.t /= "none")
    /\ (last.op \in {"get_rate_limit_info", "close"}) => (last.reqs = 0 /\ last.net.t = "none")

C3_Witness ==
    /\ last.op = "health_check"
    /\ last.net.t = "timeout"
    /\ last.out.kind = "PassBiError"
    /\ last.reqs = 1

\* C4: once a response has been received, the rate-limit record equals the
\* six values of the headers of the most recently received response: the
\* integer of each header present, 0 for each one absent.
C4_SnapshotIsLatestResponse ==
    last_headers.received => rate_limit_info = HeaderValues(last_headers.headers)

\* C5: a response whose body cannot be decoded surfaces as a decode failure,
\* never as a PassBiError and never as a returned value, for success and
\* failure statuses alike.
C5_DecodeFailurePropagates ==
    (last.net.t = "response" /\ last.net.body.form = "undecodable") =>
        last.out.kind \notin {"PassBiError", "return"}

\* C6: a rate-limit header that is present but not a number gives 0 for its
\* field, and the call's outcome is the one the status and body determine.
C6_NonNumericHeaderIsZero ==
    \A k \in RateLimitKeys :
        UnreadableHeader(last, k) =>
            /\ k \in DOMAIN rate_limit_info
            /\ rate_limit_info[k] = 0
            /\ last.out = ParseResponse(last.net, json_exc)

\* C7: from construction on the rate-limit record has all six fields, and
\* they are all 0 as long as no response has been received.
C7_SnapshotAlwaysComplete ==
    constructed =>
        /\ DOMAIN rate_limit_info = RateLimitKeys
        /\ ~last_headers.received => \A k \in RateLimitKeys : rate_limit_info[k] = 0

\* C8: a timeout yields PassBiError 408 "timeout", any other transport
\* failure yields PassBiError 0 "request_failed", and a PassBiError with
\* status 0 and code "request_failed" arises only when no response was
\* received.
C8_TransportErrors ==
    /\ last.net.t = "timeout" =>
          (last.out.kind = "PassBiError" /\ last.out.status_code = 408
           /\ last.out.error_code = "timeout")
    /\ last.net.t = "error" =>
          (last.out.kind = "PassBiError" /\ last.out.status_code = 0
           /\ last.out.error_code = "request_failed")
    /\ (last.out.kind = "PassBiError" /\ last.out.status_code = 0
        /\ last.out.error_code = "request_failed") => last.net.t = "error"

\* C9: leaving a with-block closes the session exactly once, whether the
\* block completed or raised, and an exception raised in the block is
\* raised again to the caller.
C9_ScopeExitCloses ==
    [][(in_scope /\ ~in_scope') =>
          /\ session_closes' = session_closes + 1
          /\ last'.op = "__exit__"
          /\ last'.closes = 1
          /\ last'.out.kind = IF last'.args[1] = None THEN "return" ELSE last'.args[1]]_vars

C9_Witness ==
    /\ last.op = "__exit__"
    /\ last.args = <<"PassBiError">>
    /\ last.out.kind = "PassBiError"
    /\ ~in_scope
    /\ session_closes = 1

\* C10: for every PassBiError, is_rate_limit_error is true exactly when the
\* error code is one of the three quota codes, whatever the status, and
\* is_auth_error is true exactly when the status is 401 or 403, whatever
\* the error code.
C10_ErrorClassification ==
    last.out.kind = "PassBiError" =>
        /\ is_rate_limit_error(last.out) <=>
              last.out.error_code \in {"rate_limit_exceeded", "daily_quota_exceeded",
                                       "monthly_quota_exceeded"}
        /\ is_auth_error(last.out) <=> last.out.status_code \in {401, 403}

C10_Witness ==
    /\ last.out.kind = "PassBiError"
    /\ last.out.status_code = 429
    /\ last.out.error_code = None
    /\ ~is_rate_limit_error(last.out)
    /\ ~is_auth_error(last.out)

\* every rate-limit header of the map is absent or accepted by int()
Readable(headers) ==
    \A k \in RateLimitKeys :
        headers[HeaderName(k)].present => PyInt(headers[HeaderName(k)].value).ok

\* the header maps a complete record can be derived from
ReadableMaps == {h \in HeaderMaps : Readable(h)}

\* the complete record of each of them
RecordOf == [h \in ReadableMaps |-> HeaderValues(h)]

WholeRecords == {RecordOf[h] : h \in ReadableMaps}

\* C11: the rate-limit record is only replaced as a whole.  Every step
\* either leaves it as it was or sets all six fields from the headers of the
\* response received in that step, so that it always is the initial record
\* or the complete record of one response, never a mix of two, also when an
\* int() of the extraction fails part-way.
C11_WholeRecordReplace ==
    [][/\ \/ rate_limit_info' = rate_limit_info
           \/ /\ last'.net.t = "response"
              /\ last'.net.headers \in ReadableMaps
              /\ rate_limit_info' = RecordOf[last'.net.headers]
        /\ \/ rate_limit_info' = EmptyDict
           \/ rate_limit_info' \in WholeRecords]_vars

C11_Witness ==
    /\ last.net.t = "response"
    /\ last.net.headers = WithText("limit_month", <<>>)
    /\ last.out.kind = "ValueError"
    /\ rate_limit_info = HeaderValues(FullHeaders)

\* C12: a request that ends in a timeout or another transport failure
\* before any response is received leaves the rate-limit record exactly as
\* it was before the call: it keeps the values of the last response received
\* and is neither reset to zero nor cleared.
C12_TransportFailureKeepsSnapshot ==
    [][last'.net.t \in {"timeout", "error"} =>
          /\ rate_limit_info' = rate_limit_info
          /\ last_headers' = last_headers]_vars

C12_Witness ==
    /\ last.net.t = "error"
    /\ last.out.status_code = 0
    /\ last_headers.received
    /\ last_headers.headers = Without("remaining_day")
    /\ rate_limit_info = RecordOf[Without("remaining_day")]
    /\ rate_limit_info["limit_day"] = 1000

====
